---- MODULE Spec2Model ----
(***************************************************************************)
(* A model of bot.py: the /add_account onboarding flow (aiogram FSM state  *)
(* per operator, the pending_login table, the Telethon connections and the *)
(* session files), and the accounts table with its EMA cooldown.           *)
(*                                                                         *)
(* A message text is a sequence of atoms; " " is the whitespace atom, so   *)
(* str.strip() and str.split() are computed on the sequence.  A session    *)
(* name is the stripped sequence.  Cooldowns are exact rationals           *)
(* [num, den] in lowest terms (the code uses binary floating point; the    *)
(* model does the same arithmetic without rounding).                       *)
(*                                                                         *)
(* Every handler that awaits the provider is a task with a program         *)
(* counter: one action issues the call, the next one receives its outcome  *)
(* and runs the handler up to its next await.  Replies are assumed to be   *)
(* delivered; read-only handlers (/start, /sessions) are left out.         *)
(***************************************************************************)
EXTENDS Integers, Sequences, FiniteSets, TLC

\* ---------------------------------------------------------------- bounds
MaxClients == 2      \* TelegramClient objects created by got_phone in one run
MaxTasks == 2        \* handlers of one operator in flight at once
MaxDecimals == 2     \* decimal places of a stored cooldown estimate
MaxLinks == 3        \* rows of the links table

\* The operators (telegram user ids).  The FSM state and the pending_login entry
\* are keyed by operator and the handlers of an operator touch no other key, so
\* the model follows the conversation of one operator with the bot.
Operators == {1}

\* ------------------------------------------------------- program constants
DEFAULT_COOLDOWN == 120

\* ------------------------------------------------------------- rationals
RECURSIVE GCD(_, _)
GCD(a, b) == IF b = 0 THEN a ELSE GCD(b, a % b)

Rat(n, d) == LET g == GCD(IF n < 0 THEN -n ELSE n, d)
             IN  [num |-> n \div g, den |-> d \div g]
RatInt(n) == [num |-> n, den |-> 1]
RatAdd(x, y) == Rat(x.num * y.den + y.num * x.den, x.den * y.den)
RatSub(x, y) == Rat(x.num * y.den - y.num * x.den, x.den * y.den)
RatMul(x, y) == Rat(x.num * y.num, x.den * y.den)

EMA_ALPHA == Rat(3, 10)

\* ------------------------------------------------------------------ text
SP == " "
IsSpace(c) == c = SP

RECURSIVE LStrip(_)
LStrip(s) == IF s # <<>> /\ IsSpace(Head(s)) THEN LStrip(Tail(s)) ELSE s

RECURSIVE RStrip(_)
RStrip(s) == IF s # <<>> /\ IsSpace(s[Len(s)])
             THEN RStrip(SubSeq(s, 1, Len(s) - 1)) ELSE s

\* str.strip()
Strip(s) == RStrip(LStrip(s))

\* length of the leading run of non-space atoms
WordLen(s) == IF \E i \in 1..Len(s) : IsSpace(s[i])
              THEN (CHOOSE i \in 1..Len(s) :
                       IsSpace(s[i]) /\ \A j \in 1..(i - 1) : ~IsSpace(s[j])) - 1
              ELSE Len(s)

\* str.split(): the words between runs of whitespace
RECURSIVE Split(_)
Split(s) == LET t == LStrip(s)
            IN  IF t = <<>> THEN <<>>
                ELSE <<SubSeq(t, 1, WordLen(t))>>
                     \o Split(SubSeq(t, WordLen(t) + 1, Len(t)))

AsciiDigits == <<"0", "1", "2", "3", "4", "5", "6", "7", "8", "9">>
DigitValue(c) == (CHOOSE i \in 1..Len(AsciiDigits) : AsciiDigits[i] = c) - 1
IsAsciiDigit(c) == \E i \in 1..Len(AsciiDigits) : AsciiDigits[i] = c
\* a digit character that is not a decimal digit (U+00B2): isdigit() accepts it,
\* int() raises ValueError on it
SUP2 == "sup2"

\* str.isdigit()
IsDigit(s) == s # <<>> /\ \A i \in 1..Len(s) : IsAsciiDigit(s[i]) \/ s[i] = SUP2

\* int(str) succeeds
IntParses(s) == s # <<>> /\ \A i \in 1..Len(s) : IsAsciiDigit(s[i])

RECURSIVE IntOf(_)
IntOf(s) == IF s = <<>> THEN 0
            ELSE 10 * IntOf(SubSeq(s, 1, Len(s) - 1)) + DigitValue(s[Len(s)])

\* the first word of a text, <<>> when it has none
FirstWord(s) == LET t == LStrip(s) IN SubSeq(t, 1, WordLen(t))

\* ------------------------------------------------------------- FSM states
None == "None"
waiting_session_name == "waiting_session_name"
waiting_api_id == "waiting_api_id"
waiting_api_hash == "waiting_api_hash"
waiting_phone == "waiting_phone"
waiting_code == "waiting_code"
waiting_password == "waiting_password"

\* ------------------------------------------------------------------ state
VARIABLES
    fsm,            \* MemoryStorage: operator -> [state, data]
    pending_login,  \* dict: operator -> {telethon_client, phone, session_name, api_id, api_hash}
    clients,        \* the TelegramClient objects of got_phone, in creation order
    tasks,          \* operator -> slot -> handler suspended at an await, or Idle
    accounts,       \* table accounts: session_name -> [owner, ema]
    files,          \* sessions/<name>.session: session_name -> blob
    last,           \* the handler that ended last: operator, handler, outcome
    maxInFlight,    \* handlers of one operator that may be in flight at once
    links,          \* table links in rowid order: [url, kind, status, last_checked, tries]
    observations    \* history: session_name -> least and greatest value passed to update_ema

flowVars == <<fsm, pending_login, clients, tasks>>
storeVars == <<accounts, files>>
vars == <<fsm, pending_login, clients, tasks, accounts, files, last, maxInFlight,
         links, observations>>

\* ------------------------------------------------------------------ dicts
EmptyDict == [k \in {} |-> 0]
Put(d, k, v) == [x \in (DOMAIN d) \cup {k} |-> IF x = k THEN v ELSE d[x]]
Pop(d, k) == [x \in (DOMAIN d) \ {k} |-> d[x]]

\* state.clear()
Cleared == [state |-> None, data |-> EmptyDict]

Idle == [pc |-> "idle"]
Slots == 1..MaxTasks
Running(o) == {i \in Slots : tasks[o][i] # Idle}
CanDispatch(o) == Cardinality(Running(o)) < maxInFlight
FreeSlot(o) == CHOOSE i \in Slots : tasks[o][i] = Idle /\ \A j \in 1..(i - 1) : tasks[o][j] # Idle

\* what is recorded when a handler ends: the operator, the handler, its outcome (which
\* determines the reply sent, "raised" meaning no reply), and the session
\* name and provider calls of the handling
NoCalls == [connect |-> 0, send_code |-> 0, sign_in |-> 0, password |-> 0]
Ended(o, h, out, name, t) ==
    [op |-> o, h |-> h, out |-> out, name |-> name,
     calls |-> t.calls, authed |-> t.authed, twofa |-> t.twofa,
     failed |-> t.failed, lastFailed |-> t.lastFailed]
NoTask == [calls |-> NoCalls, authed |-> FALSE, twofa |-> FALSE, failed |-> 0, lastFailed |-> FALSE]
NoName == <<>>
EndedAtomic(o, h, out) == Ended(o, h, out, NoName, NoTask)

\* ---------------------------------------------------------------- routing
\* Handlers in registration order; the first whose filter matches gets the
\* message.  The state handlers are registered before /sessions, /seed_links,
\* /export_assist and /report, so they take those commands as flow input.
Route(state, text) ==
    LET command == FirstWord(text)   \* what the Command(...) filters compare
    IN  IF command = <<"/start">> THEN "start_cmd"
        ELSE IF command = <<"/add_account">> THEN "add_account_start"
        ELSE IF state = waiting_session_name THEN "got_session_name"
        ELSE IF state = waiting_api_id THEN "got_api_id"
        ELSE IF state = waiting_api_hash THEN "got_api_hash"
        ELSE IF state = waiting_phone THEN "got_phone"
        ELSE IF state = waiting_code THEN "got_code"
        ELSE IF state = waiting_password THEN "got_password"
        ELSE IF command = <<"/sessions">> THEN "cmd_sessions"
        ELSE IF command = <<"/seed_links">> THEN "cmd_seed_links"
        ELSE IF command = <<"/export_assist">> THEN "cmd_export_assist"
        ELSE IF command = <<"/report">> THEN "cmd_report"
        ELSE "classify_msg"

Routed(o, text, h) == CanDispatch(o) /\ Route(fsm[o].state, text) = h

\* ----------------------------------------------------------------- inputs
AddAccountTexts == {<<"/add_account">>}
NameTexts == {<<"acc1">>, <<SP, "acc2">>, <<SP>>}
ApiIdTexts == {<<"7">>, <<"x">>, <<SUP2>>}
ApiHashTexts == {<<"h">>}
PhoneTexts == {<<"+1">>}
CodeTexts == {<<"5">>}
PasswordTexts == {<<"pw">>}

\* ------------------------------------------------------- atomic handlers
set_state(o, s) == [fsm EXCEPT ![o].state = s]
update_data(f, o, k, v) == [f EXCEPT ![o].data = Put(@, k, v)]

add_account_start(o, text) ==
    /\ Routed(o, text, "add_account_start")
    /\ fsm' = set_state(o, waiting_session_name)
    /\ last' = EndedAtomic(o, "add_account_start", "choose_name")
    /\ UNCHANGED <<pending_login, clients, tasks, accounts, files, maxInFlight, links, observations>>

got_session_name(o, text) ==
    /\ Routed(o, text, "got_session_name")
    /\ LET name == Strip(text)
       IN  IF name = <<>>
           THEN /\ last' = EndedAtomic(o, "got_session_name", "name_empty")
                /\ UNCHANGED fsm
           ELSE /\ fsm' = [update_data(fsm, o, "session_name", name)
                             EXCEPT ![o].state = waiting_api_id]
                /\ last' = EndedAtomic(o, "got_session_name", "enter_api_id")
    /\ UNCHANGED <<pending_login, clients, tasks, accounts, files, maxInFlight, links, observations>>

\* got_api_id with a validation failure that discards the flow
got_api_id_clearing(o, text) ==
    /\ Routed(o, text, "got_api_id")
    /\ LET txt == Strip(text)
       IN  IF ~IsDigit(txt) \/ ~IntParses(txt)
           THEN /\ last' = EndedAtomic(o, "got_api_id", "api_id_not_numeric")
                /\ fsm' = [fsm EXCEPT ![o] = Cleared]
           ELSE /\ fsm' = [update_data(fsm, o, "api_id", IntOf(txt))
                             EXCEPT ![o].state = waiting_api_hash]
                /\ last' = EndedAtomic(o, "got_api_id", "enter_api_hash")
    /\ UNCHANGED <<pending_login, clients, tasks, accounts, files, maxInFlight, links, observations>>

got_api_id(o, text) ==
    /\ Routed(o, text, "got_api_id")
    /\ LET txt == Strip(text)
       IN  IF ~IsDigit(txt)
           THEN /\ last' = EndedAtomic(o, "got_api_id", "api_id_not_numeric")
                /\ UNCHANGED fsm
           ELSE IF ~IntParses(txt)
           THEN \* int(txt) raises ValueError: the handler ends without a reply
                /\ last' = EndedAtomic(o, "got_api_id", "raised")
                /\ UNCHANGED fsm
           ELSE /\ fsm' = [update_data(fsm, o, "api_id", IntOf(txt))
                             EXCEPT ![o].state = waiting_api_hash]
                /\ last' = EndedAtomic(o, "got_api_id", "enter_api_hash")
    /\ UNCHANGED <<pending_login, clients, tasks, accounts, files, maxInFlight, links, observations>>

got_api_hash(o, text) ==
    /\ Routed(o, text, "got_api_hash")
    /\ fsm' = [update_data(fsm, o, "api_hash", Strip(text))
                 EXCEPT ![o].state = waiting_phone]
    /\ last' = EndedAtomic(o, "got_api_hash", "enter_phone")
    /\ UNCHANGED <<pending_login, clients, tasks, accounts, files, maxInFlight, links, observations>>

\* ------------------------------------------------------------- provider
\* A TelegramClient of got_phone: who opened it and whether it is connected.
NewClient(o) == [owner |-> o, status |-> "new"]
Connected(c) == clients[c].status = "connected"
disconnect(cs, c) == [cs EXCEPT ![c].status = "closed"]

\* outcomes of the provider calls: a call on a connection that is not connected fails
ConnectOutcomes == {"ok", "raise"}
SendCodeOutcomes == {"ok", "raise"}
SignInOutcomes(c) == IF Connected(c) THEN {"ok", "password_needed", "raise"} ELSE {"raise"}
PasswordOutcomes(c) == IF Connected(c) THEN {"ok", "raise"} ELSE {"raise"}
\* TelegramClient(str(SESSIONS_DIR / session_name), ...) opens the session file
ConstructOutcomes == {"ok", "raise"}
\* open(..., "wb") and write
WriteOutcomes == {"ok", "raise"}

\* the credential a file holds: the connection whose session was saved, and
\* whether the file was flushed by the file-backed client or written as a string
Blob(c, form) == [client |-> c, form |-> form]

\* ------------------------------------------------------------------ tasks
NewTask(h, pc, obj) ==
    [h |-> h, pc |-> pc, obj |-> obj, calls |-> NoCalls,
     authed |-> FALSE, twofa |-> FALSE, failed |-> 0, lastFailed |-> FALSE, fileOpen |-> FALSE]
Called(t, op) == [t EXCEPT !.calls[op] = @ + 1]
At(o, i, h, pc) == tasks[o][i] # Idle /\ tasks[o][i].h = h /\ tasks[o][i].pc = pc
SetTask(o, i, t) == tasks' = [tasks EXCEPT ![o][i] = t]
Start(o, t) == SetTask(o, FreeSlot(o), t)
\* the handler returns (or raises): its slot is free again and its end is recorded
Finish(o, i, out) ==
    /\ tasks' = [tasks EXCEPT ![o][i] = Idle]
    /\ last' = Ended(o, tasks[o][i].h, out, tasks[o][i].obj.session_name, tasks[o][i])

\* ------------------------------------------------------------ accounts table
DefaultRow(owner) == [owner |-> owner, ema |-> RatInt(DEFAULT_COOLDOWN)]

\* INSERT OR REPLACE INTO accounts
add_account_meta_replacing(accts, session_name, owner_telegram_id) ==
    Put(accts, session_name, DefaultRow(owner_telegram_id))

\* INSERT OR IGNORE INTO accounts
add_account_meta(accts, session_name, owner_telegram_id) ==
    IF session_name \in DOMAIN accts THEN accts
    ELSE Put(accts, session_name, DefaultRow(owner_telegram_id))

\* ---------------------------------------------------------------- got_phone
DataKeys == {"session_name", "api_id", "api_hash"}

got_phone(o, text) ==
    /\ Routed(o, text, "got_phone")
    /\ Len(clients) < MaxClients
    /\ LET data == fsm[o].data
       IN  IF ~(DataKeys \subseteq DOMAIN data)
           THEN \* data["..."] raises KeyError
                /\ last' = EndedAtomic(o, "got_phone", "raised")
                /\ UNCHANGED <<clients, tasks>>
           ELSE /\ clients' = Append(clients, NewClient(o))
                /\ Start(o, Called(NewTask("got_phone", "connect",
                              [telethon_client |-> Len(clients) + 1,
                               phone |-> Strip(text),
                               session_name |-> data["session_name"],
                               api_id |-> data["api_id"],
                               api_hash |-> data["api_hash"]]), "connect"))
                /\ UNCHANGED last
    /\ UNCHANGED <<fsm, pending_login, accounts, files, maxInFlight, links, observations>>

\* client.connect() returns or raises
got_phone_connect(o, i) ==
    /\ At(o, i, "got_phone", "connect")
    /\ LET t == tasks[o][i]
           c == t.obj.telethon_client
       IN  \E r \in ConnectOutcomes :
             IF r = "ok"
             THEN /\ clients' = [clients EXCEPT ![c].status = "connected"]
                  /\ SetTask(o, i, Called([t EXCEPT !.pc = "send_code"], "send_code"))
             ELSE /\ SetTask(o, i, [t EXCEPT !.pc = "disconnect", !.lastFailed = TRUE, !.failed = @ + 1])
                  /\ UNCHANGED clients
    /\ UNCHANGED <<fsm, pending_login, accounts, files, last, maxInFlight, links, observations>>

\* got_phone that requests the code again when the request fails
got_phone_send_code_retrying(o, i) ==
    /\ At(o, i, "got_phone", "send_code")
    /\ LET t == tasks[o][i]
       IN  \E r \in SendCodeOutcomes :
             IF r = "ok"
             THEN /\ pending_login' = Put(pending_login, o, t.obj)
                  /\ fsm' = set_state(o, waiting_code)
                  /\ Finish(o, i, "code_sent")
             ELSE /\ t.calls["send_code"] < 3
                  /\ SetTask(o, i, Called([t EXCEPT !.failed = @ + 1], "send_code"))
                  /\ UNCHANGED <<fsm, pending_login, last>>
    /\ UNCHANGED <<clients, accounts, files, maxInFlight, links, observations>>

\* client.send_code_request(phone) returns or raises
got_phone_send_code(o, i) ==
    /\ At(o, i, "got_phone", "send_code")
    /\ LET t == tasks[o][i]
       IN  \E r \in SendCodeOutcomes :
             IF r = "ok"
             THEN /\ pending_login' = Put(pending_login, o, t.obj)
                  /\ fsm' = set_state(o, waiting_code)
                  /\ Finish(o, i, "code_sent")
             ELSE /\ SetTask(o, i, [t EXCEPT !.pc = "disconnect", !.lastFailed = TRUE, !.failed = @ + 1])
                  /\ UNCHANGED <<fsm, pending_login, last>>
    /\ UNCHANGED <<clients, accounts, files, maxInFlight, links, observations>>

\* "Failed to send code": client.disconnect() returns, then state.clear()
got_phone_failed(o, i) ==
    /\ At(o, i, "got_phone", "disconnect")
    /\ clients' = disconnect(clients, tasks[o][i].obj.telethon_client)
    /\ fsm' = [fsm EXCEPT ![o] = Cleared]
    /\ Finish(o, i, "send_failed")
    /\ UNCHANGED <<pending_login, accounts, files, maxInFlight, links, observations>>

\* the completion keeping one account per owner: the owner's other rows are deleted
Saved_one_per_owner(o, i) ==
    /\ accounts' = add_account_meta(
                     [n \in {m \in DOMAIN accounts : accounts[m].owner # o} |-> accounts[n]],
                     tasks[o][i].obj.session_name, o)
    /\ pending_login' = Pop(pending_login, o)
    /\ fsm' = [fsm EXCEPT ![o] = Cleared]
    /\ Finish(o, i, "saved")

\* ------------------------------------------------- credential persistence
\* add_account_meta(...); pending_login.pop(...); state.clear(); "Account saved"
Saved(o, i) ==
    /\ accounts' = add_account_meta(accounts, tasks[o][i].obj.session_name, o)
    /\ pending_login' = Pop(pending_login, o)
    /\ fsm' = [fsm EXCEPT ![o] = Cleared]
    /\ Finish(o, i, "saved")

\* the except branch: open(sessions/<name>.session, "wb") and write the string
\* session; an error of open or write leaves the handler as an exception
FallbackWrite(o, i) ==
    LET t == tasks[o][i]
    IN  \E w \in WriteOutcomes :
          IF w = "ok"
          THEN /\ files' = Put(files, t.obj.session_name, Blob(t.obj.telethon_client, "string"))
               /\ Saved(o, i)
          ELSE /\ Finish(o, i, "raised")
               /\ UNCHANGED <<fsm, pending_login, accounts, files>>

\* file_client.connect() returns or raises.  Connected, the file-backed client
\* writes sessions/<name>.session (bot.py:278)
FileConnect(o, i) ==
    LET t == tasks[o][i]
    IN  \E r \in ConnectOutcomes :
          IF r = "ok"
          THEN /\ files' = Put(files, t.obj.session_name, Blob(t.obj.telethon_client, "session"))
               /\ SetTask(o, i, [t EXCEPT !.pc = "file_disconnect", !.fileOpen = TRUE])
               /\ UNCHANGED <<fsm, pending_login, accounts, last>>
          ELSE FallbackWrite(o, i)

\* file_client.disconnect() returns
FileDisconnect(o, i) ==
    /\ Saved(o, i)
    /\ UNCHANGED files

\* "Sign-in failed" / "Password sign-in failed": client.disconnect() returns,
\* then pending_login.pop(...) and state.clear()
Aborted(o, i, out) ==
    /\ clients' = disconnect(clients, tasks[o][i].obj.telethon_client)
    /\ pending_login' = Pop(pending_login, o)
    /\ fsm' = [fsm EXCEPT ![o] = Cleared]
    /\ Finish(o, i, out)

\* "No pending login": state.clear() after the reply
NoPending(o, i) ==
    /\ fsm' = [fsm EXCEPT ![o] = Cleared]
    /\ tasks' = [tasks EXCEPT ![o][i] = Idle]
    /\ last' = EndedAtomic(o, tasks[o][i].h, "no_pending")

\* ----------------------------------------------------------------- got_code
got_code(o, text) ==
    /\ Routed(o, text, "got_code")
    /\ IF o \notin DOMAIN pending_login
       THEN Start(o, [h |-> "got_code", pc |-> "no_pending"])
       ELSE Start(o, Called(NewTask("got_code", "sign_in", pending_login[o]), "sign_in"))
    /\ UNCHANGED <<fsm, pending_login, clients, accounts, files, last, maxInFlight, links, observations>>

got_code_no_pending(o, i) ==
    /\ At(o, i, "got_code", "no_pending")
    /\ NoPending(o, i)
    /\ UNCHANGED <<pending_login, clients, accounts, files, maxInFlight, links, observations>>

\* client.sign_in(phone=phone, code=code) returns or raises
got_code_sign_in(o, i) ==
    /\ At(o, i, "got_code", "sign_in")
    /\ LET t == tasks[o][i]
           c == t.obj.telethon_client
       IN  \E r \in SignInOutcomes(c) :
             CASE r = "ok" ->
                    /\ SetTask(o, i, [t EXCEPT !.pc = "disconnect", !.authed = TRUE])
                    /\ UNCHANGED <<fsm, clients, last>>
               [] r = "password_needed" ->
                    /\ fsm' = set_state(o, waiting_password)
                    /\ tasks' = [tasks EXCEPT ![o][i] = Idle]
                    /\ last' = Ended(o, "got_code", "need_password", t.obj.session_name,
                                     [t EXCEPT !.twofa = TRUE])
                    /\ UNCHANGED clients
               [] r = "raise" ->
                    \* the fallback: client.sign_in(code=code)
                    /\ SetTask(o, i, Called([t EXCEPT !.pc = "sign_in_fallback",
                                                      !.lastFailed = TRUE, !.failed = @ + 1], "sign_in"))
                    /\ UNCHANGED <<fsm, clients, last>>
    /\ UNCHANGED <<pending_login, accounts, files, maxInFlight, links, observations>>

\* client.sign_in(code=code) returns or raises; every exception, the
\* SessionPasswordNeededError included, is caught by "except Exception as e2"
got_code_sign_in_fallback(o, i) ==
    /\ At(o, i, "got_code", "sign_in_fallback")
    /\ LET t == tasks[o][i]
           c == t.obj.telethon_client
       IN  \E r \in SignInOutcomes(c) :
             CASE r = "ok" ->
                    SetTask(o, i, [t EXCEPT !.pc = "disconnect", !.authed = TRUE,
                                            !.lastFailed = FALSE])
               [] r = "password_needed" ->
                    SetTask(o, i, [t EXCEPT !.pc = "disconnect_failed", !.twofa = TRUE])
               [] r = "raise" ->
                    SetTask(o, i, [t EXCEPT !.pc = "disconnect_failed", !.failed = @ + 1])
    /\ UNCHANGED <<fsm, pending_login, clients, accounts, files, last, maxInFlight, links, observations>>

got_code_failed(o, i) ==
    /\ At(o, i, "got_code", "disconnect_failed")
    /\ Aborted(o, i, "signin_failed")
    /\ UNCHANGED <<accounts, files, maxInFlight, links, observations>>

\* client.disconnect() returns; then the file-backed TelegramClient is
\* constructed, outside any try, and file_client.connect() is called
got_code_disconnected(o, i) ==
    /\ At(o, i, "got_code", "disconnect")
    /\ clients' = disconnect(clients, tasks[o][i].obj.telethon_client)
    /\ \E r \in ConstructOutcomes :
         IF r = "ok"
         THEN /\ SetTask(o, i, [tasks[o][i] EXCEPT !.pc = "file_connect"])
              /\ UNCHANGED last
         ELSE Finish(o, i, "raised")
    /\ UNCHANGED <<fsm, pending_login, accounts, files, maxInFlight, links, observations>>

got_code_file_connect(o, i) ==
    /\ At(o, i, "got_code", "file_connect")
    /\ FileConnect(o, i)
    /\ UNCHANGED <<clients, maxInFlight, links, observations>>

got_code_file_disconnect(o, i) ==
    /\ At(o, i, "got_code", "file_disconnect")
    /\ FileDisconnect(o, i)
    /\ UNCHANGED <<clients, maxInFlight, links, observations>>

\* ------------------------------------------------------------- got_password
got_password(o, text) ==
    /\ Routed(o, text, "got_password")
    /\ IF o \notin DOMAIN pending_login
       THEN Start(o, [h |-> "got_password", pc |-> "no_pending"])
       ELSE Start(o, Called(NewTask("got_password", "sign_in", pending_login[o]), "password"))
    /\ UNCHANGED <<fsm, pending_login, clients, accounts, files, last, maxInFlight, links, observations>>

got_password_no_pending(o, i) ==
    /\ At(o, i, "got_password", "no_pending")
    /\ NoPending(o, i)
    /\ UNCHANGED <<pending_login, clients, accounts, files, maxInFlight, links, observations>>

\* client.sign_in(password=pwd) returns or raises
got_password_sign_in(o, i) ==
    /\ At(o, i, "got_password", "sign_in")
    /\ LET t == tasks[o][i]
           c == t.obj.telethon_client
       IN  \E r \in PasswordOutcomes(c) :
             IF r = "ok"
             THEN SetTask(o, i, [t EXCEPT !.pc = "disconnect", !.authed = TRUE])
             ELSE SetTask(o, i, [t EXCEPT !.pc = "disconnect_failed",
                                          !.lastFailed = TRUE, !.failed = @ + 1])
    /\ UNCHANGED <<fsm, pending_login, clients, accounts, files, last, maxInFlight, links, observations>>

got_password_failed(o, i) ==
    /\ At(o, i, "got_password", "disconnect_failed")
    /\ Aborted(o, i, "password_failed")
    /\ UNCHANGED <<accounts, files, maxInFlight, links, observations>>

\* client.disconnect() returns; the file-backed TelegramClient is constructed
\* inside the try, so its failure leads to the fallback write
got_password_disconnected(o, i) ==
    /\ At(o, i, "got_password", "disconnect")
    /\ clients' = disconnect(clients, tasks[o][i].obj.telethon_client)
    /\ \E r \in ConstructOutcomes :
         IF r = "ok"
         THEN /\ SetTask(o, i, [tasks[o][i] EXCEPT !.pc = "file_connect"])
              /\ UNCHANGED <<fsm, pending_login, accounts, files, last>>
         ELSE FallbackWrite(o, i)
    /\ UNCHANGED <<maxInFlight, links, observations>>

got_password_file_connect(o, i) ==
    /\ At(o, i, "got_password", "file_connect")
    /\ FileConnect(o, i)
    /\ UNCHANGED <<clients, maxInFlight, links, observations>>

got_password_file_disconnect(o, i) ==
    /\ At(o, i, "got_password", "file_disconnect")
    /\ FileDisconnect(o, i)
    /\ UNCHANGED <<clients, maxInFlight, links, observations>>

\* -------------------------------------------------------- cooldown and /report
RECURSIVE Pow10(_)
Pow10(k) == IF k = 0 THEN 1 ELSE 10 * Pow10(k - 1)

\* update_ema that applies the observation to the default when it creates the row
update_ema_applying(accts, session_name, observed_seconds) ==
    LET prev == IF session_name \in DOMAIN accts
                THEN accts[session_name].ema ELSE RatInt(DEFAULT_COOLDOWN)
        ema == RatAdd(RatMul(EMA_ALPHA, observed_seconds),
                      RatMul(RatSub(RatInt(1), EMA_ALPHA), prev))
    IN  IF session_name \in DOMAIN accts
        THEN [accounts |-> [accts EXCEPT ![session_name].ema = ema], ema |-> ema]
        ELSE [accounts |-> Put(accts, session_name, [owner |-> 0, ema |-> ema]),
              ema |-> ema]

\* update_ema that adds the weighted observation to the whole previous estimate
update_ema_unweighted(accts, session_name, observed_seconds) ==
    IF session_name \in DOMAIN accts
    THEN LET prev == accts[session_name].ema
             ema == RatAdd(RatMul(EMA_ALPHA, observed_seconds), prev)
         IN  [accounts |-> [accts EXCEPT ![session_name].ema = ema], ema |-> ema]
    ELSE [accounts |-> Put(accts, session_name, DefaultRow(0)),
          ema |-> RatInt(DEFAULT_COOLDOWN)]

\* update_ema with the weights of the observation and of the previous estimate exchanged
update_ema_swapped(accts, session_name, observed_seconds) ==
    IF session_name \in DOMAIN accts
    THEN LET prev == accts[session_name].ema
             ema == RatAdd(RatMul(RatSub(RatInt(1), EMA_ALPHA), observed_seconds),
                           RatMul(EMA_ALPHA, prev))
         IN  [accounts |-> [accts EXCEPT ![session_name].ema = ema], ema |-> ema]
    ELSE [accounts |-> Put(accts, session_name, DefaultRow(0)),
          ema |-> RatInt(DEFAULT_COOLDOWN)]

\* the result: the table after the call and the value returned
update_ema(accts, session_name, observed_seconds) ==
    IF session_name \in DOMAIN accts
    THEN LET prev == accts[session_name].ema
             ema == RatAdd(RatMul(EMA_ALPHA, observed_seconds),
                           RatMul(RatSub(RatInt(1), EMA_ALPHA), prev))
         IN  [accounts |-> [accts EXCEPT ![session_name].ema = ema], ema |-> ema]
    ELSE [accounts |-> Put(accts, session_name, DefaultRow(0)),
          ema |-> RatInt(DEFAULT_COOLDOWN)]

\* the end of a /report handling: its outcome, and for a recorded report the
\* observation fed to update_ema, the row read before it and the value returned
Reported(o, out, name, observed, before, ema) ==
    [op |-> o, h |-> "cmd_report", out |-> out, name |-> name,
     observed |-> observed, before |-> before, ema |-> ema]
NotReported(o, out) == [op |-> o, h |-> "cmd_report", out |-> out, name |-> NoName]

\* the values passed to update_ema for a name so far, the default included
RatLeq(x, y) == x.num * y.den <= y.num * x.den
Observed(session_name) ==
    IF session_name \in DOMAIN observations
    THEN observations[session_name]
    ELSE [lo |-> RatInt(DEFAULT_COOLDOWN), hi |-> RatInt(DEFAULT_COOLDOWN)]
Widen(r, x) ==
    [lo |-> IF RatLeq(x, r.lo) THEN x ELSE r.lo,
     hi |-> IF RatLeq(r.hi, x) THEN x ELSE r.hi]

\* new_ema = update_ema(session_name, observed) and the reply
Record(o, out, session_name, observed) ==
    LET u == update_ema(accounts, session_name, observed)
    IN  /\ accounts' = u.accounts
        /\ observations' = Put(observations, session_name,
                               Widen(Observed(session_name), observed))
        /\ last' = Reported(o, out, session_name, observed,
                            IF session_name \in DOMAIN accounts
                            THEN <<accounts[session_name]>> ELSE <<>>,
                            u.ema)

\* the estimate after one more update still has at most MaxDecimals decimals
WithinPrecision(text) ==
    LET parts == Split(text)
    IN  Len(parts) >= 2 /\ Strip(parts[2]) \in DOMAIN accounts
        => accounts[Strip(parts[2])].ema.den * 10 <= Pow10(MaxDecimals)

cmd_report(o, text) ==
    /\ Routed(o, text, "cmd_report")
    /\ WithinPrecision(text)
    /\ LET parts == Split(text)
       IN  IF Len(parts) < 3
           THEN /\ last' = NotReported(o, "usage")
                /\ UNCHANGED <<accounts, observations>>
           ELSE LET session_name == Strip(parts[2])
                    res == Strip(parts[3])
                IN  CASE res = <<"ok">> ->
                           Record(o, "recorded_success", session_name,
                                  RatMul(RatInt(DEFAULT_COOLDOWN), Rat(9, 10)))
                      [] res = <<"fail">> ->
                           Record(o, "recorded_failure", session_name,
                                  RatMul(RatInt(DEFAULT_COOLDOWN), Rat(12, 10)))
                      [] res = <<"flood">> /\ Len(parts) >= 4 /\ IsDigit(parts[4]) ->
                           IF IntParses(parts[4])
                           THEN Record(o, "recorded_floodwait", session_name,
                                       RatInt(IntOf(parts[4])))
                           ELSE \* int(parts[3]) raises ValueError: no reply
                                /\ last' = NotReported(o, "raised")
                                /\ UNCHANGED <<accounts, observations>>
                      [] OTHER ->
                           /\ last' = NotReported(o, "invalid_format")
                           /\ UNCHANGED <<accounts, observations>>
    /\ UNCHANGED <<fsm, pending_login, clients, tasks, files, maxInFlight, links>>

ReportTexts ==
    {<<"/report", SP, "acc1", SP, "ok">>,
     <<"/report", SP, "acc1", SP, "fail">>,
     <<"/report", SP, "acc1", SP, "flood", SP, "0">>,
     <<"/report", SP, "acc2", SP, "flood", SP, "9", "0">>,
     <<"/report", SP, "acc2", SP, "ok">>,
     <<"/report", SP, "acc1", SP, "flood", SP, SUP2>>,
     <<"/report", SP, "acc1", SP, "flood", SP, "x">>,
     <<"/report", SP, "acc1", SP, "flood">>,
     <<"/report", SP, "acc1", SP, "bogus">>,
     <<"/report", SP, "acc1">>}
\* the reports sent while operators onboard accounts
FlowReportTexts == {<<"/report", SP, "acc1", SP, "flood", SP, "0">>}

\* ------------------------------------------------------------ link texts
\* A link text is a sequence of characters, so that startswith, endswith, "in"
\* and lower() are computed on it.
UpperCase == <<"A", "B", "C", "E", "H", "I", "J", "M", "N", "O", "P", "S", "T", "X">>
LowerCase == <<"a", "b", "c", "e", "h", "i", "j", "m", "n", "o", "p", "s", "t", "x">>
LowerChar(c) ==
    IF \E k \in 1..Len(UpperCase) : UpperCase[k] = c
    THEN LowerCase[CHOOSE k \in 1..Len(UpperCase) : UpperCase[k] = c]
    ELSE c
ToLower(s) == [k \in 1..Len(s) |-> LowerChar(s[k])]
StartsWith(s, p) == Len(p) <= Len(s) /\ SubSeq(s, 1, Len(p)) = p
EndsWith(s, p) == Len(p) <= Len(s) /\ SubSeq(s, Len(s) - Len(p) + 1, Len(s)) = p
Contains(s, p) == \E k \in 1..(Len(s) - Len(p) + 1) : SubSeq(s, k, k + Len(p) - 1) = p

AT == <<"@">>
HTTP == <<"h", "t", "t", "p">>
T_ME == <<"t", ".", "m", "e", "/">>
JOINCHAT == <<"j", "o", "i", "n", "c", "h", "a", "t">>
BOT == <<"b", "o", "t">>

\* classify_link with the bot rule tested before the invite rule
classify_link_bot_first(url) ==
    LET u == ToLower(Strip(url))
    IN  IF StartsWith(u, AT) THEN "unknown"
        ELSE IF Contains(u, T_ME) /\ (Contains(u, BOT) \/ EndsWith(u, BOT)) THEN "bot"
        ELSE IF \/ Contains(u, T_ME \o JOINCHAT)
                \/ Contains(u, <<"/", "+", "/">>)
                \/ Contains(u, T_ME \o <<"+">>)
                \/ Contains(u, JOINCHAT)
             THEN "group_invite"
        ELSE "unknown"

classify_link(url) ==
    LET u == ToLower(Strip(url))
    IN  IF StartsWith(u, AT) THEN "unknown"
        ELSE IF \/ Contains(u, T_ME \o JOINCHAT)
                \/ Contains(u, <<"/", "+", "/">>)
                \/ Contains(u, T_ME \o <<"+">>)
                \/ Contains(u, JOINCHAT)
             THEN "group_invite"
        ELSE IF Contains(u, T_ME) /\ (Contains(u, BOT) \/ EndsWith(u, BOT)) THEN "bot"
        ELSE "unknown"

\* ------------------------------------------------------------- links table
\* a row with the column defaults of CREATE TABLE links
LinkRow(url, kind) ==
    [url |-> url, kind |-> kind, status |-> "pending", last_checked |-> 0, tries |-> 0]
HasUrl(ls, url) == \E k \in 1..Len(ls) : ls[k].url = url

\* INSERT OR REPLACE INTO links: the row of the same url is deleted first
insert_or_replace(ls, row) ==
    Append(SelectSeq(ls, LAMBDA r : r.url # row.url), row)

\* INSERT OR IGNORE INTO links, url UNIQUE
insert_or_ignore(ls, row) == IF HasUrl(ls, row.url) THEN ls ELSE Append(ls, row)

\* the loop of seed_links_from_file over the lines of links.txt:
\* INSERT OR IGNORE INTO links (url) VALUES (u), kind left to its default
RECURSIVE seed_lines(_, _)
seed_lines(ls, lines) ==
    IF lines = <<>> THEN [links |-> ls, added |-> 0]
    ELSE LET u == Strip(Head(lines))
         IN  IF u = <<>> THEN seed_lines(ls, Tail(lines))
             ELSE LET rest == seed_lines(insert_or_ignore(ls, LinkRow(u, "unknown")),
                                         Tail(lines))
                  IN  [links |-> rest.links,
                       added |-> rest.added + (IF HasUrl(ls, u) THEN 0 ELSE 1)]

\* links.txt: <<>> when the file does not exist, else <<lines>>
seed_links_from_file(ls, file) ==
    IF file = <<>> THEN [links |-> ls, added |-> 0] ELSE seed_lines(ls, file[1])

\* ------------------------------------------------------ link handlers
\* the end of a handler of the link queue
EndedLink(o, h, out) == [op |-> o, h |-> h, out |-> out, name |-> NoName]

\* the fallback handler: a text that starts with "http" or "@" is stored
classify_msg(o, text) ==
    /\ Routed(o, text, "classify_msg")
    /\ IF StartsWith(text, HTTP) \/ StartsWith(text, AT)
       THEN LET kind == classify_link(text)
                url == Strip(text)
            IN  /\ HasUrl(links, url) \/ Len(links) < MaxLinks
                /\ links' = insert_or_ignore(links, LinkRow(url, kind))
                /\ last' = [op |-> o, h |-> "classify_msg", out |-> "saved_link",
                            name |-> NoName, url |-> url, kind |-> kind]
       ELSE /\ UNCHANGED links
            /\ last' = EndedLink(o, "classify_msg", "ignored")
    /\ UNCHANGED <<fsm, pending_login, clients, tasks, accounts, files, maxInFlight,
                   observations>>

\* /seed_links: n = seed_links_from_file() and the reply "Seeded n links"
cmd_seed_links(o, text, file) ==
    /\ Routed(o, text, "cmd_seed_links")
    /\ LET r == seed_links_from_file(links, file)
       IN  /\ Len(r.links) <= MaxLinks
           /\ links' = r.links
           /\ last' = [op |-> o, h |-> "cmd_seed_links", out |-> "seeded",
                       name |-> NoName, added |-> r.added]
    /\ UNCHANGED <<fsm, pending_login, clients, tasks, accounts, files, maxInFlight,
                   observations>>

\* f"{ema:.0f}": the estimate rounded to an integer, halves to the even one
Round0(x) ==
    LET q == x.num \div x.den
        r == x.num % x.den
    IN  IF 2 * r < x.den THEN q
        ELSE IF 2 * r > x.den THEN q + 1
        ELSE IF q % 2 = 0 THEN q ELSE q + 1

\* the SELECT without the status filter
Exportable_any_status(r) == r.kind \in {"group_invite", "unknown"}

\* WHERE status='pending' AND (kind='group_invite' OR kind='unknown')
Exportable(r) == r.status = "pending" /\ r.kind \in {"group_invite", "unknown"}
\* "Recommended delay between joins for <session_name>: <ema> seconds"
Header(session_name, ema) == [session_name |-> session_name, delay |-> Round0(ema)]
\* the lines of assist_<session_name>.txt: the header ends with "\n\n"
AssistLines(session_name, ema, urls) == <<Header(session_name, ema), <<>>>> \o urls

\* /export_assist <session_name>
cmd_export_assist(o, text) ==
    /\ Routed(o, text, "cmd_export_assist")
    /\ LET parts == Split(text)
       IN  IF Len(parts) < 2
           THEN last' = EndedLink(o, "cmd_export_assist", "usage")
           ELSE LET session_name == Strip(parts[2])
                    rows == SelectSeq(links, Exportable)
                    urls == [k \in 1..Len(rows) |-> rows[k].url]
                    ema == IF session_name \in DOMAIN accounts
                           THEN accounts[session_name].ema
                           ELSE RatInt(DEFAULT_COOLDOWN)
                IN  IF rows = <<>>
                    THEN last' = [op |-> o, h |-> "cmd_export_assist", out |-> "empty",
                                  name |-> session_name]
                    ELSE \E w \in WriteOutcomes :
                           IF w = "ok"
                           THEN last' = [op |-> o, h |-> "cmd_export_assist",
                                         out |-> "artifact", name |-> session_name,
                                         lines |-> AssistLines(session_name, ema, urls),
                                         caption |-> Round0(ema)]
                           ELSE \* open(out_file, "w") raises: no reply
                                last' = [op |-> o, h |-> "cmd_export_assist",
                                         out |-> "raised", name |-> session_name]
    /\ UNCHANGED <<fsm, pending_login, clients, tasks, accounts, files, maxInFlight,
                   links, observations>>

\* ------------------------------------------------------------ link inputs
COLON == <<":">>
INVITE == HTTP \o COLON \o T_ME \o <<"+", "x">>
HANDLE == AT \o BOT
BOTLINK == HTTP \o COLON \o T_ME \o <<"x">> \o BOT
PLAIN == HTTP \o COLON \o T_ME \o <<"x">>
LinkTexts == {INVITE, INVITE \o <<SP>>, HANDLE, BOTLINK, PLAIN, <<"h", "i">>}
SeedTexts == {<<"/seed_links">>}
\* links.txt: absent, or its lines
LinksFiles ==
    {<<>>,
     <<<<INVITE, <<SP>>, BOTLINK>>>>,
     <<<<<<SP>> \o HANDLE, INVITE>>>>}
ExportTexts == {<<"/export_assist", SP, "acc1">>, <<"/export_assist">>}
\* links.db as an earlier run and the manual workflow left it
StoredLinks ==
    {<<>>,
     <<[url |-> HTTP \o COLON \o T_ME \o <<"+", "o">>, kind |-> "group_invite",
        status |-> "done", last_checked |-> 0, tries |-> 0]>>}

\* the arguments classify_link is applied to
ClassifyInputs ==
    {p \o h \o m \o t :
        p \in {<<>>, <<SP>>, AT, HTTP \o COLON, <<"H", "T", "T", "P">> \o COLON},
        h \in {<<>>, T_ME, <<"T", ".", "M", "E", "/">>},
        m \in {<<>>, <<"+">>, JOINCHAT, <<"/", "+", "/">>},
        t \in {<<"x">>, BOT, <<"B", "o", "T">>, BOT \o <<SP>>}}
\* classify_link(url) is called and returns
classify_link_call ==
    /\ last.h = "url"
    /\ last' = [last EXCEPT !.h = "classify_link", !.out = classify_link(last.url)]
    /\ UNCHANGED <<fsm, pending_login, clients, tasks, accounts, files, maxInFlight,
                   links, observations>>

\* --------------------------------------------------------- specifications
InitCommon ==
    /\ fsm = [o \in Operators |-> Cleared]
    /\ pending_login = EmptyDict
    /\ clients = <<>>
    /\ tasks = [o \in Operators |-> [i \in Slots |-> Idle]]
    /\ accounts = EmptyDict
    /\ files = EmptyDict
    /\ last = EndedAtomic(0, "none", "none")
    /\ links = <<>>
    /\ observations = EmptyDict

\* Messages of one operator are handled one at a time, each to completion.
Init == InitCommon /\ maxInFlight = 1

Flow ==
    \/ \E o \in Operators, text \in AddAccountTexts : add_account_start(o, text)
    \/ \E o \in Operators, text \in NameTexts : got_session_name(o, text)
    \/ \E o \in Operators, text \in ApiIdTexts : got_api_id(o, text)
    \/ \E o \in Operators, text \in ApiHashTexts : got_api_hash(o, text)
    \/ \E o \in Operators, text \in PhoneTexts : got_phone(o, text)
    \/ \E o \in Operators, i \in Slots : got_phone_connect(o, i)
    \/ \E o \in Operators, i \in Slots : got_phone_send_code(o, i)
    \/ \E o \in Operators, i \in Slots : got_phone_failed(o, i)
    \/ \E o \in Operators, text \in CodeTexts : got_code(o, text)
    \/ \E o \in Operators, i \in Slots : got_code_sign_in(o, i)
    \/ \E o \in Operators, i \in Slots : got_code_sign_in_fallback(o, i)
    \/ \E o \in Operators, i \in Slots : got_code_failed(o, i)
    \/ \E o \in Operators, i \in Slots : got_code_disconnected(o, i)
    \/ \E o \in Operators, i \in Slots : got_code_file_connect(o, i)
    \/ \E o \in Operators, i \in Slots : got_code_file_disconnect(o, i)
    \/ \E o \in Operators, text \in PasswordTexts : got_password(o, text)
    \/ \E o \in Operators, i \in Slots : got_password_sign_in(o, i)
    \/ \E o \in Operators, i \in Slots : got_password_failed(o, i)
    \/ \E o \in Operators, i \in Slots : got_password_disconnected(o, i)
    \/ \E o \in Operators, i \in Slots : got_password_file_connect(o, i)
    \/ \E o \in Operators, i \in Slots : got_password_file_disconnect(o, i)

Next ==
    \/ Flow
    \/ \E o \in Operators, text \in FlowReportTexts : cmd_report(o, text)

Spec == Init /\ [][Next]_vars

\* dp.start_polling(bot) handles every update in a task of its own
\* (handle_as_tasks, bot.py:419): a handler suspended at an await does not keep
\* the next message of the same operator from being handled.
InitConc == InitCommon /\ maxInFlight = MaxTasks

NextConc ==
    \/ Flow
    \/ \E o \in Operators, i \in Slots : got_password_no_pending(o, i)

SpecConc == InitConc /\ [][NextConc]_vars

\* The outcome reports alone.
NextEma == \E o \in Operators, text \in ReportTexts : cmd_report(o, text)

SpecEma == Init /\ [][NextEma]_vars

\* The link queue: ingestion by message and from links.txt, export, and the
\* reports that move the estimate the export header shows.
InitLinks ==
    /\ fsm = [o \in Operators |-> Cleared]
    /\ pending_login = EmptyDict
    /\ clients = <<>>
    /\ tasks = [o \in Operators |-> [i \in Slots |-> Idle]]
    /\ accounts = EmptyDict
    /\ files = EmptyDict
    /\ last = EndedAtomic(0, "none", "none")
    /\ links \in StoredLinks
    /\ observations = EmptyDict
    /\ maxInFlight = 1

NextLinks ==
    \/ \E o \in Operators, text \in LinkTexts : classify_msg(o, text)
    \/ \E o \in Operators, text \in SeedTexts, file \in LinksFiles : cmd_seed_links(o, text, file)
    \/ \E o \in Operators, text \in ExportTexts : cmd_export_assist(o, text)
    \/ \E o \in Operators, text \in FlowReportTexts : cmd_report(o, text)

SpecLinks == InitLinks /\ [][NextLinks]_vars

\* classify_link applied to each of ClassifyInputs.
InitClassify ==
    /\ fsm = [o \in Operators |-> Cleared]
    /\ pending_login = EmptyDict
    /\ clients = <<>>
    /\ tasks = [o \in Operators |-> [i \in Slots |-> Idle]]
    /\ accounts = EmptyDict
    /\ files = EmptyDict
    /\ \E u \in ClassifyInputs :
         last = [op |-> 0, h |-> "url", out |-> "none", name |-> NoName, url |-> u]
    /\ links = <<>>
    /\ observations = EmptyDict
    /\ maxInFlight = 1

NextClassify == classify_link_call

SpecClassify == InitClassify /\ [][NextClassify]_vars

\* ================================================================ properties
HasObj(t) == t # Idle /\ t.pc # "no_pending"
\* the handler in slot i of operator o ends in this step; last' describes its end
Ends(o, i) == tasks[o][i] # Idle /\ tasks'[o][i] = Idle
\* the connections of operator o that are open: the clients of got_phone and the
\* file-backed clients of the persistence step
OpenClients(o) == {c \in 1..Len(clients) : clients[c].owner = o /\ clients[c].status = "connected"}
OpenFileClients(o) == {i \in Slots : HasObj(tasks[o][i]) /\ tasks[o][i].fileOpen}
NoOpenConnection(o) == OpenClients(o) = {} /\ OpenFileClients(o) = {}
\* a client some handler in flight or the live-handle table still refers to
Referenced(c) ==
    \/ \E o \in DOMAIN pending_login : pending_login[o].telethon_client = c
    \/ \E o \in Operators, i \in Slots :
         HasObj(tasks[o][i]) /\ tasks[o][i].obj.telethon_client = c

Successor(s) ==
    CASE s = waiting_session_name -> {waiting_api_id}
      [] s = waiting_api_id -> {waiting_api_hash}
      [] s = waiting_api_hash -> {waiting_phone}
      [] s = waiting_phone -> {waiting_code}
      [] s = waiting_code -> {waiting_password}
      [] OTHER -> {}
\* the flow ends from state s with outcome out: Completed or Aborted
FlowEnds(s, out) ==
    \/ out = "saved" /\ s \in {waiting_code, waiting_password}
    \/ out = "send_failed" /\ s = waiting_phone
    \/ out = "signin_failed" /\ s = waiting_code
    \/ out = "password_failed" /\ s = waiting_password
    \/ out = "no_pending" /\ s \in {waiting_code, waiting_password}
OrderedStep(o) ==
    LET s == fsm[o].state
        t == fsm'[o].state
    IN  \/ t = s /\ fsm'[o].data = fsm[o].data
        \/ t \in Successor(s)
        \/ t = None /\ last'.op = o /\ FlowEnds(s, last'.out)
        \/ t = waiting_session_name /\ last'.op = o /\ last'.h = "add_account_start"

\* C1: with the messages of an operator handled one at a time, every step leaves
\* the operator's state and collected data unchanged, advances the state to its
\* immediate successor, ends the flow (Completed or Aborted, from the state the
\* outcome belongs to) or is an explicit /add_account restart.
C1_StrictOrder == [][\A o \in Operators : OrderedStep(o)]_vars
\* a flow has gone through every state, AwaitingPassword included, and completed
C1_CompletedViaPassword ==
    /\ last.h = "got_password" /\ last.out = "saved"
    /\ fsm[last.op].state = None
    /\ last.name \in DOMAIN accounts

Completes(o, i) == Ends(o, i) /\ last'.op = o /\ last'.out = "saved"
\* C2: after every completion the row of the chosen session name exists and
\* holds the default cooldown, and no connection opened by the operator is open.
C2_CompletedDefaultAndClosed ==
    [][\A o \in Operators, i \in Slots :
         Completes(o, i) =>
           /\ last'.name \in DOMAIN accounts'
           /\ accounts'[last'.name].ema = RatInt(DEFAULT_COOLDOWN)
           /\ NoOpenConnection(o)']_vars
\* what a completion does establish: the row exists, it is this operator's default
\* row when no row of that name existed and the unchanged earlier row otherwise,
\* the connection that was authenticated is closed and the live handle is gone
CompletionEstablishes ==
    [][\A o \in Operators, i \in Slots :
         Completes(o, i) =>
           LET n == last'.name
           IN  /\ n \in DOMAIN accounts'
               /\ n \notin DOMAIN accounts => accounts'[n] = DefaultRow(o)
               /\ \A m \in DOMAIN accounts : m \in DOMAIN accounts' /\ accounts'[m] = accounts[m]
               /\ clients'[tasks[o][i].obj.telethon_client].status = "closed"
               /\ o \notin DOMAIN pending_login']_vars

\* the state a handler was dispatched in
DispatchState(h) ==
    CASE h = "got_phone" -> waiting_phone
      [] h = "got_code" -> waiting_code
      [] h = "got_password" -> waiting_password
\* C3: with handlers suspended at provider calls while further messages of the
\* operator are handled, the state still follows the strict order, and a handler
\* that resumes changes the state only if it is still the one it was dispatched in.
C3_OrderUnderSuspension ==
    [][\A o \in Operators :
         /\ OrderedStep(o)
         /\ \A i \in Slots :
              Ends(o, i) /\ fsm'[o] # fsm[o] => fsm[o].state = DispatchState(tasks[o][i].h)]_vars

\* C4: no connection is open while neither the live-handle table nor a handler in
\* flight refers to it (such a connection can never be closed any more).
C4_NoLeakedConnection ==
    \A c \in 1..Len(clients) : clients[c].status = "connected" => Referenced(c)

AbortOutcomes == {"send_failed", "signin_failed", "password_failed", "no_pending"}
\* C5: after every abort the operator has no onboarding state, no live handle and
\* no open connection, and no Account row was written.
C5_AbortDiscardsAll ==
    [][\A o \in Operators, i \in Slots :
         Ends(o, i) /\ last'.op = o /\ last'.out \in AbortOutcomes =>
           /\ fsm'[o] = Cleared
           /\ o \notin DOMAIN pending_login'
           /\ NoOpenConnection(o)'
           /\ accounts' = accounts]_vars

\* the handlings that call the provider: those in flight and the one that ended last
Handlings ==
    UNION {{tasks[o][i] : i \in {j \in Slots : HasObj(tasks[o][j])}} : o \in Operators}
    \cup (IF last.h \in {"got_phone", "got_code", "got_password"} /\ last.out # "no_pending"
          THEN {last} ELSE {})
EndedHandling == last.h \in {"got_phone", "got_code", "got_password"} /\ last.out # "no_pending"
ProviderOps == {"connect", "send_code", "sign_in", "password"}
C7_SecondFactorAdvances ==
    [][\A o \in Operators, i \in Slots :
         Ends(o, i) /\ last'.op = o /\ last'.h = "got_code" /\ last'.twofa =>
           /\ last'.out = "need_password"
           /\ fsm'[o].state = waiting_password
           /\ o \in DOMAIN pending_login'
           /\ clients'[tasks[o][i].obj.telethon_client].status = "connected"
           /\ accounts' = accounts /\ files' = files]_vars

\* C8: a handling that authenticated ends with the credential written and the
\* account registered, or with a reply that the account was not saved; either way
\* the flow state is discarded.
C8_CredentialNotLost ==
    [][\A o \in Operators, i \in Slots :
         Ends(o, i) /\ last'.op = o /\ last'.out # "no_pending" /\ last'.authed =>
           /\ \/ /\ last'.out = "saved"
                 /\ last'.name \in DOMAIN files'
                 /\ files'[last'.name].client = tasks[o][i].obj.telethon_client
                 /\ last'.name \in DOMAIN accounts'
              \/ last'.out = "not_saved"
           /\ fsm'[o] = Cleared
           /\ o \notin DOMAIN pending_login']_vars

\* the credential of name n was written by an onboarding that has completed
Stored(n) ==
    /\ n \in DOMAIN files
    /\ \A o \in Operators, i \in Slots :
         HasObj(tasks[o][i]) => tasks[o][i].obj.telethon_client # files[n].client
\* C9: the stored credential of a completed onboarding never changes.
C9_CredentialImmutable ==
    [][\A n \in DOMAIN files : Stored(n) => n \in DOMAIN files' /\ files'[n] = files[n]]_vars

Recorded == last.h = "cmd_report" /\ last.out \in {"recorded_success", "recorded_failure", "recorded_floodwait"}
\* C10: an update of an existing account stores and returns
\* 0.3 * observed + 0.7 * previous, and every stored estimate is strictly positive.
C10_EmaRule ==
    /\ Recorded /\ last.before # <<>> =>
         /\ last.ema = RatAdd(RatMul(Rat(3, 10), last.observed),
                              RatMul(Rat(7, 10), last.before[1].ema))
         /\ accounts[last.name].ema = last.ema
         /\ accounts[last.name].owner = last.before[1].owner
    /\ \A n \in DOMAIN accounts : accounts[n].ema.num > 0 /\ accounts[n].ema.den > 0
\* the observation 0 of a "flood 0" report was applied to an estimate that
\* earlier updates had already moved off the default
C10_FloodZeroApplied ==
    /\ Recorded /\ last.out = "recorded_floodwait"
    /\ last.observed = RatInt(0)
    /\ last.before # <<>>
    /\ last.before[1].ema # RatInt(DEFAULT_COOLDOWN)
    /\ accounts[last.name].ema = RatMul(Rat(7, 10), last.before[1].ema)

\* C11: registering a session name that already has a row (of an earlier
\* onboarding or of an update for an unregistered name) changes no row and no
\* field of the accounts table and adds no row.
C11_RegisterIdempotent ==
    [][\A o \in Operators, i \in Slots :
         Completes(o, i) /\ last'.name \in DOMAIN accounts =>
           /\ accounts' = accounts
           /\ add_account_meta(accounts, last'.name, o) = accounts]_vars
\* an onboarding completed for a name whose row an update had created: the row
\* still has owner 0 and the estimate the report left
C11_RegisteredOverReportedRow ==
    /\ last.out = "saved"
    /\ last.name \in DOMAIN accounts
    /\ accounts[last.name].owner = 0
    /\ accounts[last.name].ema # RatInt(DEFAULT_COOLDOWN)

RecordedStep ==
    /\ last'.h = "cmd_report"
    /\ last'.out \in {"recorded_success", "recorded_failure", "recorded_floodwait"}
\* C12: an update for a name without a row adds exactly the row [owner 0, default],
\* returns the default and leaves every other row alone; the next update of that
\* name applies the moving-average rule to the default.
C12_UpdateCreatesDefaultRow ==
    [][RecordedStep =>
         LET n == last'.name
         IN  IF n \notin DOMAIN accounts
             THEN /\ accounts' = Put(accounts, n, DefaultRow(0))
                  /\ last'.ema = RatInt(DEFAULT_COOLDOWN)
                  /\ last'.before = <<>>
             ELSE /\ DOMAIN accounts' = DOMAIN accounts
                  /\ accounts[n] = DefaultRow(0) =>
                       accounts'[n].ema =
                         RatAdd(RatMul(Rat(3, 10), last'.observed),
                                RatMul(Rat(7, 10), RatInt(DEFAULT_COOLDOWN)))]_vars
\* the second update of an unregistered name was applied to the default
C12_SecondUpdateOnDefault ==
    /\ Recorded
    /\ last.before = <<DefaultRow(0)>>
    /\ last.ema # RatInt(DEFAULT_COOLDOWN)
    /\ accounts[last.name] = [owner |-> 0, ema |-> last.ema]

\* C13 as stated: a row appears in the accounts table only in the step in which an
\* onboarding with that session name completes, and no row ever disappears.
C13_RowsOnlyByCompletion ==
    [][/\ \A n \in DOMAIN accounts' \ DOMAIN accounts :
            \E o \in Operators, i \in Slots : Completes(o, i) /\ last'.name = n
       /\ DOMAIN accounts \subseteq DOMAIN accounts']_vars
\* C13 amended: a row appears only in the step in which an onboarding with that
\* session name completes or in which an outcome report for a name without a row
\* is recorded, and no row ever disappears.
C13_RowsByCompletionOrUpdate ==
    [][/\ \A n \in DOMAIN accounts' \ DOMAIN accounts :
            \/ \E o \in Operators, i \in Slots : Completes(o, i) /\ last'.name = n
            \/ RecordedStep /\ last'.name = n /\ last'.before = <<>>
       /\ DOMAIN accounts \subseteq DOMAIN accounts']_vars
\* one row created by a report and another one by a completed onboarding
C13_BothKindsOfRow ==
    \E n, m \in DOMAIN accounts :
        /\ accounts[n].owner = 0
        /\ accounts[m].owner \in Operators
        /\ m \in DOMAIN files

\* the shapes the claim admits: ok, fail, or flood with an unsigned integer
ValidReport(text) ==
    LET parts == Split(text)
    IN  /\ Len(parts) >= 3
        /\ \/ parts[3] \in {<<"ok">>, <<"fail">>}
           \/ /\ parts[3] = <<"flood">>
              /\ Len(parts) >= 4
              /\ parts[4] # <<>>
              /\ \A k \in 1..Len(parts[4]) : IsAsciiDigit(parts[4][k])
\* C14: a report of any other shape gets a usage reply and changes nothing.
C14_InvalidReportRejected ==
    [][\A o \in Operators, text \in ReportTexts :
         ~ValidReport(text) /\ cmd_report(o, text) =>
           /\ last'.out \in {"usage", "invalid_format"}
           /\ accounts' = accounts]_vars

C15_IngestionIdempotent ==
    [][/\ Len(links') >= Len(links)
       /\ \A k \in 1..Len(links) : links'[k] = links[k]
       /\ \A k \in (Len(links) + 1)..Len(links') :
            /\ ~HasUrl(SubSeq(links', 1, k - 1), links'[k].url)
            /\ Strip(links'[k].url) = links'[k].url]_vars
\* an identifier seeded from the file was sent again as a message: the reply
\* names another category than the one that stays stored
C15_ReingestedKeptFirst ==
    /\ last.h = "classify_msg" /\ last.out = "saved_link"
    /\ \E k \in 1..Len(links) : links[k].url = last.url /\ links[k].kind # last.kind
    /\ \A j, k \in 1..Len(links) : links[j].url = links[k].url => j = k

UpperChar(c) ==
    IF \E k \in 1..Len(LowerCase) : LowerCase[k] = c
    THEN UpperCase[CHOOSE k \in 1..Len(LowerCase) : LowerCase[k] = c]
    ELSE c
ToUpper(s) == [k \in 1..Len(s) |-> UpperChar(s[k])]
\* the invitation-link markers
InviteMarker(u) ==
    \/ Contains(u, T_ME \o JOINCHAT)
    \/ Contains(u, JOINCHAT)
    \/ Contains(u, T_ME \o <<"+">>)
    \/ Contains(u, <<"/", "+", "/">>)
\* C16: classify maps every input to one of the three categories, the same one
\* whatever the case of its letters, by the first rule that matches the trimmed
\* identifier: '@' first, then an invite marker, then link host and 'bot'.
C16_ClassifyRules ==
    last.h = "classify_link" =>
        LET u == ToLower(Strip(last.url))
            kind == last.out
        IN  /\ kind \in {"unknown", "bot", "group_invite"}
            /\ kind = classify_link(ToUpper(last.url))
            /\ kind = classify_link(ToLower(last.url))
            /\ kind = IF StartsWith(u, AT) THEN "unknown"
                      ELSE IF InviteMarker(u) THEN "group_invite"
                      ELSE IF Contains(u, T_ME) /\ Contains(u, BOT) THEN "bot"
                      ELSE "unknown"
\* an identifier in capitals with the link host, an invite marker and 'bot'
C16_InviteOverBot ==
    /\ last.h = "classify_link" /\ last.out = "group_invite"
    /\ last.url # ToLower(last.url)
    /\ Contains(ToLower(last.url), T_ME)
    /\ Contains(ToLower(last.url), BOT)

\* the entries an export lists, in the order of their ingestion
Matches(r) == r.status = "pending" /\ r.kind # "bot"
MatchingUrls == LET rows == SelectSeq(links, Matches) IN [k \in 1..Len(rows) |-> rows[k].url]
Exported == last.h = "cmd_export_assist" /\ last.out # "usage"
CurrentEstimate(n) ==
    IF n \in DOMAIN accounts THEN accounts[n].ema ELSE RatInt(DEFAULT_COOLDOWN)
C18_StoredKindIsClassified ==
    /\ \A k \in 1..Len(links) : links[k].kind = classify_link(links[k].url)
    /\ last.h = "classify_msg" /\ last.out = "saved_link" =>
         \A k \in 1..Len(links) : links[k].url = last.url => links[k].kind = last.kind

\* C19: while an operator is in waiting_code or waiting_password with a live
\* handle recorded, the handle holds the session name and the API credentials
\* the operator entered in the current flow.
C19_HandleOfCurrentFlow ==
    \A o \in Operators :
        fsm[o].state \in {waiting_code, waiting_password} /\ o \in DOMAIN pending_login =>
            \A key \in {"session_name", "api_id", "api_hash"} :
                /\ key \in DOMAIN fsm[o].data
                /\ fsm[o].data[key] = pending_login[o][key]
====
